---- MODULE Spec2Model ----
(***************************************************************************)
(* Model of .agents/skills/check-work-chunk/scripts/verify_work_chunk.py:  *)
(* the orchestrator main(), run_streaming() with its reader thread, the    *)
(* verdict parser and the verdict aggregator.                              *)
(*                                                                         *)
(* Text is modelled as a sequence of one-character strings, a captured     *)
(* line as the name of one of a few fixed texts (LineText), a transcript   *)
(* file as the sequence of the entries written to it.                      *)
(***************************************************************************)
EXTENDS Integers, Sequences, FiniteSets, TLC

\* ------------------------------------------------------------------------
\* Bounds of the model
\* ------------------------------------------------------------------------

\* Number of lines one subprocess (with its descendants) may write.
MaxLines == 1

\* Number of upsets in one run of main.  An upset is one of: a timeout that
\* expires, a descendant that keeps the output pipe open after the
\* subprocess has ended, a join of the reader thread that times out.
MaxFaults == 1

\* ------------------------------------------------------------------------
\* Program constants
\* ------------------------------------------------------------------------

\* argparse default of --timeout-s
DefaultTimeout == 1800

\* return code of a command that was not found
RcNotFound == 127

\* return codes of a subprocess ended by SIGTERM / SIGKILL (Popen: -signum)
RcSigTerm == 0 - 15

RcSigKill == 0 - 9

\* "for name in (codex, gemini, claude)": the three agents, in program order
AgentOrder == <<"codex", "gemini", "claude">>

Agents == {"codex", "gemini", "claude"}

Verdicts == {"PASS", "FAIL", "UNCLEAR"}

\* ------------------------------------------------------------------------
\* Text
\* ------------------------------------------------------------------------

\* the letters of the model's texts, lower case and upper case
LowerSeq ==
  <<"a", "b", "c", "d", "e", "f", "g", "h", "i", "j", "k", "l", "m", "n", "o", "p", "q",
    "r", "s", "t", "u", "v", "w", "x", "y", "z">>

UpperSeq ==
  <<"A", "B", "C", "D", "E", "F", "G", "H", "I", "J", "K", "L", "M", "N", "O", "P", "Q",
    "R", "S", "T", "U", "V", "W", "X", "Y", "Z">>

\* the decimal digits, in order
DigitSeq == <<"0", "1", "2", "3", "4", "5", "6", "7", "8", "9">>

LowerLetters == {LowerSeq[i] : i \in 1..Len(LowerSeq)}

UpperLetters == {UpperSeq[i] : i \in 1..Len(UpperSeq)}

\* Characters outside ASCII, each written as the name of its code point:
\* capital I with dot above, dotless i, long s, no-break space, combining
\* dot above.
SpecialLetters == {"<U+0130>", "<U+0131>", "<U+017F>"}

\* characters the regular expression's \w matches (str patterns: Unicode)
WordChars ==
  UpperLetters \cup LowerLetters \cup SpecialLetters \cup {"_"}
    \cup {DigitSeq[i] : i \in 1..Len(DigitSeq)}

\* characters the regular expression's \s matches (str patterns: Unicode)
SpaceChars == {" ", "\t", "\n", "<U+00A0>"}

\* str.upper() on one character
Upper(c) ==
  IF c \in LowerLetters
    THEN UpperSeq[CHOOSE i \in 1..Len(LowerSeq) : LowerSeq[i] = c]
  ELSE IF c = "<U+0131>" THEN "I"
  ELSE IF c = "<U+017F>" THEN "S"
  ELSE c

\* str.lower() on one character
Lower(c) ==
  IF c \in UpperLetters
    THEN LowerSeq[CHOOSE i \in 1..Len(UpperSeq) : UpperSeq[i] = c]
    ELSE c

\* str.lower() of s[i:]; capital I with dot above becomes two characters
RECURSIVE LowerFrom(_, _)
LowerFrom(s, i) ==
  IF i > Len(s) THEN <<>>
  ELSE (IF s[i] = "<U+0130>" THEN <<"i", "<U+0307>">> ELSE <<Lower(s[i])>>)
         \o LowerFrom(s, i + 1)

\* str.lower()
LowerText(s) == LowerFrom(s, 1)

\* str.upper()
UpperText(s) == [i \in 1..Len(s) |-> Upper(s[i])]

\* s[i:i+len(w)] == w
HasAt(s, i, w) ==
  /\ i >= 1
  /\ i + Len(w) - 1 <= Len(s)
  /\ \A k \in 1..Len(w) : s[i + k - 1] = w[k]

\* "w in s"
Contains(s, w) == \E i \in 1..(Len(s) + 1) : HasAt(s, i, w)

\* re.IGNORECASE on one character: the characters that match one another
\* have the same image; besides the two cases of a letter, i matches capital
\* I with dot above and dotless i, and s matches long s
Fold(c) ==
  IF c \in {"<U+0130>", "<U+0131>"} THEN "I"
  ELSE IF c = "<U+017F>" THEN "S"
  ELSE Upper(c)

\* s[i:i+len(w)] matches w under re.IGNORECASE
HasAtNoCase(s, i, w) ==
  /\ i >= 1
  /\ i + Len(w) - 1 <= Len(s)
  /\ \A k \in 1..Len(w) : Fold(s[i + k - 1]) = Fold(w[k])

\* \b at position i (between s[i-1] and s[i])
WordBoundary(s, i) ==
  LET before == i >= 2 /\ i - 1 <= Len(s) /\ s[i - 1] \in WordChars
      after == i >= 1 /\ i <= Len(s) /\ s[i] \in WordChars
  IN before # after

\* \s* from position i: the position of the first non-space character
RECURSIVE SkipSpace(_, _)
SkipSpace(s, i) ==
  IF i <= Len(s) /\ s[i] \in SpaceChars THEN SkipSpace(s, i + 1) ELSE i

W_VERDICT == <<"V", "E", "R", "D", "I", "C", "T">>

W_PASS == <<"P", "A", "S", "S">>

W_FAIL == <<"F", "A", "I", "L">>

W_UNCLEAR == <<"U", "N", "C", "L", "E", "A", "R">>

\* (PASS|FAIL|UNCLEAR), in the order the alternation tries them
VerdictWords == <<W_PASS, W_FAIL, W_UNCLEAR>>

\* _VERDICT_RE matched at position i: 0 when it does not match, else the
\* index in VerdictWords of the alternative that matched
VerdictMatchAt(s, i) ==
  IF ~(WordBoundary(s, i) /\ HasAtNoCase(s, i, W_VERDICT)) THEN 0
  ELSE LET j == SkipSpace(s, i + Len(W_VERDICT))
       IN IF ~HasAt(s, j, <<":">>) THEN 0
          ELSE LET k == SkipSpace(s, j + 1)
                   ok(n) == /\ HasAtNoCase(s, k, VerdictWords[n])
                            /\ WordBoundary(s, k + Len(VerdictWords[n]))
               IN IF \E n \in 1..3 : ok(n)
                    THEN CHOOSE n \in 1..3 : ok(n) /\ \A m \in 1..(n - 1) : ~ok(m)
                    ELSE 0

\* m.start(1) of the match at position i
VerdictGroupStart(s, i) ==
  SkipSpace(s, SkipSpace(s, i + Len(W_VERDICT)) + 1)

\* s[i:j+1].upper(), as a str
RECURSIVE UpperStr(_, _, _)
UpperStr(s, i, j) ==
  IF i > j THEN "" ELSE Upper(s[i]) \o UpperStr(s, i + 1, j)

\* _VERDICT_RE.search from position i: the position of the leftmost match,
\* 0 for None
VerdictSearch(s, i) ==
  IF \A j \in i..Len(s) : VerdictMatchAt(s, j) = 0 THEN 0
  ELSE CHOOSE j \in i..Len(s) :
         /\ VerdictMatchAt(s, j) # 0
         /\ \A g \in i..(j - 1) : VerdictMatchAt(s, g) = 0

\* _parse_verdict: _VERDICT_RE.search, group(1).upper()
ParseVerdict(text_out) ==
  IF VerdictSearch(text_out, 1) = 0 THEN "UNCLEAR"
  ELSE CHOOSE v \in
         UNION { { UpperStr(text_out, k, k + Len(VerdictWords[VerdictMatchAt(text_out, at)]) - 1) :
                     k \in {VerdictGroupStart(text_out, at)} } :
                 at \in {VerdictSearch(text_out, 1)} } : TRUE

\* ------------------------------------------------------------------------
\* Aggregation
\* ------------------------------------------------------------------------

\* A Python dict is the sequence of its <<key, value>> items in insertion
\* order.
DictHas(d, k) == \E i \in 1..Len(d) : d[i][1] = k

DictGet(d, k) == d[CHOOSE i \in 1..Len(d) : d[i][1] = k][2]

\* d[k] = v
DictSet(d, k, v) ==
  IF DictHas(d, k)
    THEN [i \in 1..Len(d) |-> IF d[i][1] = k THEN <<k, v>> ELSE d[i]]
    ELSE Append(d, <<k, v>>)

\* list(d.values())
DictValues(d) == [i \in 1..Len(d) |-> d[i][2]]

\* a variant whose PASS test is any() instead of all()
OverallAnyPass(verdictsArg) ==
  LET vals == SelectSeq(DictValues(verdictsArg), LAMBDA v : v # "")
  IN IF Len(vals) = 0 THEN "UNCLEAR"
     ELSE IF \E i \in 1..Len(vals) : vals[i] = "FAIL" THEN "FAIL"
     ELSE IF \E i \in 1..Len(vals) : vals[i] = "PASS" THEN "PASS"
     ELSE "UNCLEAR"

\* _overall
Overall(verdictsArg) ==
  LET vals == SelectSeq(DictValues(verdictsArg), LAMBDA v : v # "")
  IN IF Len(vals) = 0 THEN "UNCLEAR"
     ELSE IF \E i \in 1..Len(vals) : vals[i] = "FAIL" THEN "FAIL"
     ELSE IF \A i \in 1..Len(vals) : vals[i] = "PASS" THEN "PASS"
     ELSE "UNCLEAR"

\* ------------------------------------------------------------------------
\* What the subprocesses may print
\* ------------------------------------------------------------------------

\* the lines a subprocess may write
Lines == {"L_pass", "L_fail", "L_unknown", "L_unknown_pass"}

\* the text of a captured line, or of run_streaming's "command not found"
\* message, which ends with the path of the executable: /bin/x, or
\* "/Unknown Option/x" for an executable installed in a directory of that
\* name
LineText(l) ==
  CASE l = "L_pass" ->
         <<"V", "E", "R", "D", "I", "C", "T", ":", " ", "P", "A", "S", "S", "\n">>
    [] l = "L_fail" ->
         <<"v", "e", "r", "d", "i", "c", "t", " ", ":", " ", " ", "f", "a", "i", "l", "\n">>
    [] l = "L_unknown" ->
         <<"U", "n", "k", "n", "o", "w", "n", " ", "A", "r", "g", "u", "m", "e", "n", "t",
           "\n">>
    [] l = "L_unknown_pass" ->
         <<"u", "n", "k", "n", "o", "w", "n", " ", "o", "p", "t", "i", "o", "n", " ",
           "V", "E", "R", "D", "I", "C", "T", ":", "P", "A", "S", "S", "\n">>
    [] l = "M_not_found" ->
         <<"c", "o", "m", "m", "a", "n", "d", " ", "n", "o", "t", " ", "f", "o", "u", "n",
           "d", ":", " ", "/", "b", "i", "n", "/", "x", "\n">>
    [] l = "M_not_found_odd" ->
         <<"c", "o", "m", "m", "a", "n", "d", " ", "n", "o", "t", " ", "f", "o", "u", "n",
           "d", ":", " ", "/", "U", "n", "k", "n", "o", "w", "n", " ", "O", "p", "t", "i",
           "o", "n", "/", "x", "\n">>

\* "".join(buffer)
RECURSIVE JoinText(_)
JoinText(buf) ==
  IF buf = <<>> THEN <<>> ELSE LineText(Head(buf)) \o JoinText(Tail(buf))

P_unknown_argument ==
  <<"u", "n", "k", "n", "o", "w", "n", " ", "a", "r", "g", "u", "m", "e", "n", "t">>

P_unknown_arguments == Append(P_unknown_argument, "s")

P_unknown_option ==
  <<"u", "n", "k", "n", "o", "w", "n", " ", "o", "p", "t", "i", "o", "n">>

\* a variant of the test that takes any failure for a flag problem
LooksLikeUnknownFlagAlways(out) == TRUE

\* the test of the retry loop: the failure looks like "unknown option"
LooksLikeUnknownFlag(out) ==
  \E lower \in {LowerText(JoinText(out))} :
    \/ Contains(lower, P_unknown_argument)
    \/ Contains(lower, P_unknown_arguments)
    \/ Contains(lower, P_unknown_option)

\* a variant that parses the output whatever the return code
VerdictOfIgnoringRc(rcArg, out) ==
  CHOOSE v \in {ParseVerdict(joined) : joined \in {JoinText(out)}} : TRUE

\* "_parse_verdict(out) if rc == 0 else UNCLEAR", out being "".join(buffer)
VerdictOf(rcArg, out) ==
  IF rcArg = 0
    THEN CHOOSE v \in {ParseVerdict(joined) : joined \in {JoinText(out)}} : TRUE
    ELSE "UNCLEAR"


\* ------------------------------------------------------------------------
\* State
\* ------------------------------------------------------------------------

\* the command lines main can launch: one for codex and claude, the primary
\* and the fallback candidate of _gemini_cmd for gemini
Cmds == {"codex", "gemini --approval-mode yolo", "gemini --yolo", "claude"}

\* the agent a command line belongs to (run_streaming's label)
LabelOf(cmd) ==
  IF cmd \in {"gemini --approval-mode yolo", "gemini --yolo"} THEN "gemini" ELSE cmd

\* _gemini_cmd: the candidates, in the order they are tried
GeminiCmd == <<"gemini --approval-mode yolo", "gemini --yolo">>

\* the paths _which can return for gemini: a plain one, and one under a
\* directory whose name reads "Unknown Option"
GeminiPaths == {"plain", "odd"}

\* run_streaming's message for a command that is not found, cmd[0] included
NotFoundMsg(cmd, path) ==
  IF LabelOf(cmd) = "gemini" /\ path = "odd" THEN "M_not_found_odd" ELSE "M_not_found"

\* return codes a subprocess exits with of its own accord
OwnCodes == {0, 1}

\* the value of "rc, out, dur" before run_streaming has returned
NoRet == [rc |-> 0, out |-> <<>>, dur |-> "0.0"]

VARIABLES
  fileExists,     \* input: Path(args.file).exists()
  args_timeout_s, \* input: args.timeout_s
  gemini,         \* main: the path _which returned for gemini, "" before and after the loop
  pc,             \* main thread: where it is
  cur,            \* main: index in AgentOrder of the agent being handled
  timeout_s,      \* main: <<>> is None, <<n>> a timeout
  run_dir,        \* whether the run directory has been created
  resolved,       \* main: codex / gemini / claude, the result of _which
  verdicts,       \* main: dict
  durations,      \* main: dict
  rcs,            \* main: dict
  overall,        \* main: "none" until computed
  summary,        \* whether the summary block has been printed
  exitStatus,     \* <<>> until main returns, then <<status>>
  attempt_i,      \* main: the gemini loop's counter, 0 outside the loop
  gemini_rc,
  gemini_out,
  gemini_dur,
  ret,            \* main: "rc, out, dur" as returned by run_streaming
  files,          \* the files of the run directory: "absent" or the entries
  launches,       \* the command lines run_streaming printed, in order
  results,        \* what run_streaming returned for the agent being handled
  active,         \* the command line of the run_streaming call in progress
  fh,             \* run_streaming: the transcript handle
  buffer,         \* run_streaming: the lines the reader accumulated
  rc,             \* run_streaming: local rc
  stdout_closed,  \* run_streaming: proc.stdout.close() was done
  proc,           \* the subprocess: "none", "running", "exited"
  returncode,     \* the subprocess's return code once exited
  pipe_open,      \* whether some process holds the write end of the pipe
  pipe,           \* lines written to the pipe and not read yet
  written,        \* number of lines written to the pipe
  signals,        \* what main did to cancel the subprocess, in order
  t,              \* the reader thread of each call
  tline,          \* the line each reader thread holds
  faults,         \* number of upsets so far (see MaxFaults)
  arg_verdicts,   \* _overall called on its own: the argument
  ret_overall,    \* _overall called on its own: the result
  text_out,       \* _parse_verdict called on its own: the argument
  ret_verdict,    \* _parse_verdict called on its own: the result
  now,            \* several runs of main: the clock, in seconds
  args_of,        \* several runs of main: --chunk and --outdir of each run
  run_dir_of,     \* several runs of main: the run directory of each run, <<>> before
  file_path,      \* build_prompt looked at alone: args.file, as text
  chunk,          \* build_prompt looked at alone: args.chunk
  prompt,         \* build_prompt looked at alone: the rendered prompt, <<>> before
  own             \* the verdict of the agent's own report, "none" before

mainVars ==
  <<pc, cur, timeout_s, run_dir, resolved, verdicts, durations, rcs, overall,
    summary, exitStatus, attempt_i, gemini_rc, gemini_out, gemini_dur, ret>>

inputVars == <<fileExists, args_timeout_s, gemini>>

logVars == <<launches, results>>

callVars == <<active, fh, buffer, rc, stdout_closed>>

procVars == <<proc, returncode, pipe_open, pipe, written, signals>>

envVars == <<faults>>

threadVars == <<t, tline>>

promptVars == <<file_path, chunk, prompt, own>>

pureVars ==
  <<arg_verdicts, ret_overall, text_out, ret_verdict, now, args_of, run_dir_of,
    promptVars>>

vars ==
  <<inputVars, mainVars, files, logVars, callVars, procVars, threadVars, envVars,
    pureVars>>

\* the runs of main that are looked at together
Runs == {"run1", "run2"}

\* no other run of main is looked at
NoRuns ==
  /\ now = 0
  /\ args_of = [r \in Runs |-> [chunk |-> 1, outdir |-> "out"]]
  /\ run_dir_of = [r \in Runs |-> <<>>]

\* build_prompt is not looked at alone
NoPrompt ==
  /\ file_path = <<>>
  /\ chunk = 0
  /\ prompt = <<>>
  /\ own = "none"

\* the state of main's and run_streaming's variables at the start of main
InitMain ==
  /\ pc = "start"
  /\ gemini = ""
  /\ cur = 0
  /\ timeout_s = <<>>
  /\ run_dir = FALSE
  /\ resolved = [a \in Agents |-> "unset"]
  /\ verdicts = <<>>
  /\ durations = <<>>
  /\ rcs = <<>>
  /\ overall = "none"
  /\ summary = FALSE
  /\ exitStatus = <<>>
  /\ attempt_i = 0
  /\ gemini_rc = 0
  /\ gemini_out = <<>>
  /\ gemini_dur = "0.0"
  /\ ret = NoRet
  /\ files = [a \in Agents |-> "absent"]
  /\ launches = <<>>
  /\ results = <<>>
  /\ active = "none"
  /\ fh = "none"
  /\ buffer = <<>>
  /\ rc = 0
  /\ stdout_closed = FALSE
  /\ proc = "none"
  /\ returncode = 0
  /\ pipe_open = FALSE
  /\ pipe = <<>>
  /\ written = 0
  /\ signals = <<>>
  /\ t = [c \in Cmds |-> "none"]
  /\ tline = [c \in Cmds |-> "-"]
  /\ faults = 0

Init ==
  /\ fileExists \in BOOLEAN
  /\ args_timeout_s \in {0, DefaultTimeout}
  /\ InitMain
  /\ arg_verdicts = <<>>
  /\ ret_overall = "none"
  /\ text_out = <<>>
  /\ ret_verdict = "none"
  /\ NoRuns
  /\ NoPrompt

\* ------------------------------------------------------------------------
\* main
\* ------------------------------------------------------------------------

\* control moves on to the next agent, or to the aggregation after claude
NextAgent ==
  IF cur = Len(AgentOrder)
    THEN pc' = "overall" /\ cur' = 0
    ELSE pc' = "which" /\ cur' = cur + 1

\* a variant that reports the missing file and goes on
MainCheckFileGoesOn ==
  /\ pc = "start"
  /\ timeout_s' = IF args_timeout_s = 0 THEN <<>> ELSE <<args_timeout_s>>
  /\ pc' = "mkdir"
  /\ UNCHANGED <<cur, run_dir, resolved, verdicts, durations, rcs, overall, summary,
                 exitStatus, attempt_i, gemini_rc, gemini_out, gemini_dur, ret>>
  /\ UNCHANGED <<inputVars, files, logVars, callVars, procVars, threadVars, pureVars,
                 faults>>

\* main, from argument parsing to the input file check
MainCheckFile ==
  /\ pc = "start"
  /\ timeout_s' = IF args_timeout_s = 0 THEN <<>> ELSE <<args_timeout_s>>
  /\ IF ~fileExists
       THEN /\ pc' = "done"
            /\ exitStatus' = <<2>>
       ELSE /\ pc' = "mkdir"
            /\ UNCHANGED exitStatus
  /\ UNCHANGED <<cur, run_dir, resolved, verdicts, durations, rcs, overall, summary,
                 attempt_i, gemini_rc, gemini_out, gemini_dur, ret>>
  /\ UNCHANGED <<inputVars, files, logVars, callVars, procVars, threadVars, pureVars, faults>>

\* main: the prompt, the run directory and the three empty dicts
MainMkdir ==
  /\ pc = "mkdir"
  /\ run_dir' = TRUE
  /\ verdicts' = <<>>
  /\ durations' = <<>>
  /\ rcs' = <<>>
  /\ pc' = "which"
  /\ cur' = 1
  /\ UNCHANGED <<timeout_s, resolved, overall, summary, exitStatus, attempt_i,
                 gemini_rc, gemini_out, gemini_dur, ret>>
  /\ UNCHANGED <<inputVars, files, logVars, callVars, procVars, threadVars, pureVars, faults>>

\* a variant that writes no transcript for the agent
AgentMissingNoTranscript(a) ==
  /\ pc = "which"
  /\ AgentOrder[cur] = a
  /\ resolved' = [resolved EXCEPT ![a] = "None"]
  /\ rcs' = DictSet(rcs, a, RcNotFound)
  /\ durations' = DictSet(durations, a, "0.0")
  /\ verdicts' = DictSet(verdicts, a, "UNCLEAR")
  /\ NextAgent
  /\ results' = <<>>
  /\ UNCHANGED <<timeout_s, run_dir, overall, summary, exitStatus, attempt_i,
                 gemini_rc, gemini_out, gemini_dur, ret>>
  /\ UNCHANGED <<inputVars, files, launches, callVars, procVars, threadVars, pureVars,
                 faults>>

\* an agent that _which does not find: the else branch
AgentMissing(a) ==
  /\ pc = "which"
  /\ AgentOrder[cur] = a
  /\ resolved' = [resolved EXCEPT ![a] = "None"]
  /\ files' = [files EXCEPT ![a] = <<"not found on PATH">>]
  /\ rcs' = DictSet(rcs, a, RcNotFound)
  /\ durations' = DictSet(durations, a, "0.0")
  /\ verdicts' = DictSet(verdicts, a, "UNCLEAR")
  /\ NextAgent
  /\ UNCHANGED <<timeout_s, run_dir, overall, summary, exitStatus, attempt_i,
                 gemini_rc, gemini_out, gemini_dur, ret>>
  /\ UNCHANGED <<inputVars, launches, callVars, procVars, threadVars, pureVars, faults>>
  /\ results' = <<>>

\* codex or claude found: the command is built and run_streaming called
AgentFound(a) ==
  /\ pc = "which"
  /\ AgentOrder[cur] = a
  /\ a # "gemini"
  /\ resolved' = [resolved EXCEPT ![a] = "found"]
  /\ active' = a
  /\ pc' = "rs_open"
  /\ UNCHANGED <<cur, timeout_s, run_dir, verdicts, durations, rcs, overall, summary,
                 exitStatus, attempt_i, gemini_rc, gemini_out, gemini_dur, ret>>
  /\ UNCHANGED <<inputVars, files, launches, fh, buffer, rc, stdout_closed, procVars,
                 threadVars, pureVars, faults>>
  /\ results' = <<>>

\* codex or claude: the result of run_streaming is recorded
AgentRecord(a) ==
  /\ pc = "record"
  /\ AgentOrder[cur] = a
  /\ a # "gemini"
  /\ rcs' = DictSet(rcs, a, ret.rc)
  /\ durations' = DictSet(durations, a, ret.dur)
  /\ verdicts' = DictSet(verdicts, a, VerdictOf(ret.rc, ret.out))
  /\ ret' = NoRet
  /\ NextAgent
  /\ UNCHANGED <<timeout_s, run_dir, resolved, overall, summary, exitStatus,
                 attempt_i, gemini_rc, gemini_out, gemini_dur>>
  /\ UNCHANGED <<inputVars, files, logVars, callVars, procVars, threadVars, pureVars, faults>>

\* gemini found: the locals of the retry loop
GeminiFound ==
  /\ pc = "which"
  /\ AgentOrder[cur] = "gemini"
  /\ resolved' = [resolved EXCEPT !["gemini"] = "found"]
  /\ gemini' \in GeminiPaths
  /\ gemini_out' = <<>>
  /\ gemini_rc' = 1
  /\ gemini_dur' = "0.0"
  /\ attempt_i' = 1
  /\ pc' = "g_iter"
  /\ UNCHANGED <<cur, timeout_s, run_dir, verdicts, durations, rcs, overall, summary,
                 exitStatus, ret>>
  /\ UNCHANGED <<fileExists, args_timeout_s, files, launches, callVars, procVars,
                 threadVars, pureVars, faults>>
  /\ results' = <<>>

\* the head of one iteration of the gemini loop: the separator is appended
\* before a retry, then run_streaming is called
GeminiIter ==
  /\ pc = "g_iter"
  /\ files' = IF attempt_i > 1
                THEN [files EXCEPT !["gemini"] = Append(@, "RETRY separator")]
                ELSE files
  /\ active' = GeminiCmd[attempt_i]
  /\ pc' = "rs_open"
  /\ UNCHANGED <<cur, timeout_s, run_dir, resolved, verdicts, durations, rcs, overall,
                 summary, exitStatus, attempt_i, gemini_rc, gemini_out, gemini_dur, ret>>
  /\ UNCHANGED <<inputVars, logVars, fh, buffer, rc, stdout_closed, procVars,
                 threadVars, pureVars, faults>>

\* a variant that accumulates the outputs of the attempts
GeminiAfterAccumulate ==
  /\ pc = "g_after"
  /\ gemini_rc' = ret.rc
  /\ gemini_out' = gemini_out \o ret.out
  /\ gemini_dur' = ret.dur
  /\ ret' = NoRet
  /\ IF ret.rc # 0 /\ LooksLikeUnknownFlag(ret.out) /\ attempt_i < Len(GeminiCmd)
       THEN /\ attempt_i' = attempt_i + 1
            /\ pc' = "g_iter"
       ELSE /\ attempt_i' = 0
            /\ pc' = "g_record"
  /\ UNCHANGED <<cur, timeout_s, run_dir, resolved, verdicts, durations, rcs, overall,
                 summary, exitStatus>>
  /\ UNCHANGED <<inputVars, files, logVars, callVars, procVars, threadVars, pureVars, faults>>

\* the rest of the iteration: the result is kept and the loop breaks or goes on
GeminiAfter ==
  /\ pc = "g_after"
  /\ gemini_rc' = ret.rc
  /\ gemini_out' = ret.out
  /\ gemini_dur' = ret.dur
  /\ ret' = NoRet
  /\ IF ret.rc # 0 /\ LooksLikeUnknownFlag(ret.out) /\ attempt_i < Len(GeminiCmd)
       THEN /\ attempt_i' = attempt_i + 1
            /\ pc' = "g_iter"
       ELSE /\ attempt_i' = 0
            /\ pc' = "g_record"
  /\ UNCHANGED <<cur, timeout_s, run_dir, resolved, verdicts, durations, rcs, overall,
                 summary, exitStatus>>
  /\ UNCHANGED <<inputVars, files, logVars, callVars, procVars, threadVars, pureVars, faults>>

\* gemini: the result of the last attempt is recorded
GeminiRecord ==
  /\ pc = "g_record"
  /\ rcs' = DictSet(rcs, "gemini", gemini_rc)
  /\ durations' = DictSet(durations, "gemini", gemini_dur)
  /\ verdicts' = DictSet(verdicts, "gemini", VerdictOf(gemini_rc, gemini_out))
  /\ gemini' = ""
  /\ NextAgent
  /\ UNCHANGED <<timeout_s, run_dir, resolved, overall, summary, exitStatus,
                 attempt_i, gemini_rc, gemini_out, gemini_dur, ret>>
  /\ UNCHANGED <<fileExists, args_timeout_s, files, logVars, callVars, procVars,
                 threadVars, pureVars, faults>>

\* a variant that does not tell UNCLEAR from FAIL
ExitCodeNoUnclear(o) == IF o = "PASS" THEN 0 ELSE 1

\* the exit status of an overall verdict
ExitCode(o) == IF o = "PASS" THEN 0 ELSE IF o = "FAIL" THEN 1 ELSE 3

\* main: overall = _overall(verdicts)
MainOverall ==
  /\ pc = "overall"
  /\ overall' = Overall(verdicts)
  /\ pc' = "summary"
  /\ UNCHANGED <<cur, timeout_s, run_dir, resolved, verdicts, durations, rcs, summary,
                 exitStatus, attempt_i, gemini_rc, gemini_out, gemini_dur, ret>>
  /\ UNCHANGED <<inputVars, files, launches, callVars, procVars, threadVars, pureVars, faults>>
  /\ results' = <<>>

\* main: the summary block is printed and the exit status returned
MainSummary ==
  /\ pc = "summary"
  /\ summary' = TRUE
  /\ exitStatus' = <<ExitCode(overall)>>
  /\ pc' = "done"
  /\ UNCHANGED <<cur, timeout_s, run_dir, resolved, verdicts, durations, rcs, overall,
                 attempt_i, gemini_rc, gemini_out, gemini_dur, ret>>
  /\ UNCHANGED <<inputVars, files, logVars, callVars, procVars, threadVars, pureVars, faults>>


\* ------------------------------------------------------------------------
\* run_streaming, main thread
\* ------------------------------------------------------------------------

\* where main continues when run_streaming returns
AfterCall == IF LabelOf(active) = "gemini" THEN "g_after" ELSE "record"

\* run_streaming's frame is left: its locals and the Popen object are gone. A
\* reader thread that is still alive goes on by itself ("stale"): every
\* stream and handle it uses is closed, so that its next read or write
\* raises ValueError and ends it.
LeaveCall ==
  /\ active' = "none"
  /\ fh' = "none"
  /\ buffer' = <<>>
  /\ rc' = 0
  /\ stdout_closed' = FALSE
  /\ proc' = "none"
  /\ returncode' = 0
  /\ pipe_open' = FALSE
  /\ pipe' = <<>>
  /\ written' = 0
  /\ signals' = <<>>
  /\ t' = [t EXCEPT ![active] = IF @ \in {"none", "dead"} THEN @ ELSE "stale"]
  /\ tline' = [tline EXCEPT ![active] = "-"]

\* out_path.open("w") and the header: the file is created or truncated
OpenTranscript(old, cmd) == <<cmd>>

\* run_streaming up to the header of the transcript
RsOpen ==
  /\ pc = "rs_open"
  /\ launches' = Append(launches, active)
  /\ buffer' = <<>>
  /\ fh' = "open"
  /\ files' = [files EXCEPT ![LabelOf(active)] = OpenTranscript(@, active)]
  /\ pc' = "rs_popen"
  /\ UNCHANGED <<cur, timeout_s, run_dir, resolved, verdicts, durations, rcs, overall,
                 summary, exitStatus, attempt_i, gemini_rc, gemini_out, gemini_dur, ret>>
  /\ UNCHANGED <<inputVars, results, active, rc, stdout_closed, procVars, threadVars,
                 pureVars, faults>>

\* Popen succeeds and the reader thread is started
RsPopenStarted ==
  /\ pc = "rs_popen"
  /\ proc' = "running"
  /\ pipe_open' = TRUE
  /\ t' = [t EXCEPT ![active] = "next"]
  /\ pc' = "rs_wait"
  /\ UNCHANGED <<cur, timeout_s, run_dir, resolved, verdicts, durations, rcs, overall,
                 summary, exitStatus, attempt_i, gemini_rc, gemini_out, gemini_dur, ret>>
  /\ UNCHANGED <<inputVars, files, logVars, callVars, returncode, pipe, written,
                 signals, tline, pureVars, faults>>

\* Popen raises FileNotFoundError: the message is written and returned
RsPopenNotFound ==
  /\ pc = "rs_popen"
  /\ files' = [files EXCEPT ![LabelOf(active)] = Append(@, "command not found")]
  /\ ret' = [rc |-> RcNotFound, out |-> <<NotFoundMsg(active, gemini)>>, dur |-> "0.0"]
  /\ results' = Append(results, [cmd |-> active, rc |-> RcNotFound,
                                 out |-> <<NotFoundMsg(active, gemini)>>])
  /\ pc' = AfterCall
  /\ LeaveCall
  /\ UNCHANGED <<cur, timeout_s, run_dir, resolved, verdicts, durations, rcs, overall,
                 summary, exitStatus, attempt_i, gemini_rc, gemini_out, gemini_dur>>
  /\ UNCHANGED <<inputVars, launches, pureVars, faults>>

\* Popen raises another OSError (permission denied, exec format error):
\* nothing catches it, it leaves run_streaming and main
RsPopenRaises ==
  /\ pc = "rs_popen"
  /\ pc' = "raised"
  /\ LeaveCall
  /\ UNCHANGED <<cur, timeout_s, run_dir, resolved, verdicts, durations, rcs, overall,
                 summary, exitStatus, attempt_i, gemini_rc, gemini_out, gemini_dur, ret>>
  /\ UNCHANGED <<inputVars, files, logVars, pureVars, faults>>

\* proc.wait(timeout=timeout_s) returns: the subprocess has exited
RsWaitReturns ==
  /\ pc = "rs_wait"
  /\ proc = "exited"
  /\ rc' = returncode
  /\ pc' = "rs_close"
  /\ UNCHANGED <<cur, timeout_s, run_dir, resolved, verdicts, durations, rcs, overall,
                 summary, exitStatus, attempt_i, gemini_rc, gemini_out, gemini_dur, ret>>
  /\ UNCHANGED <<inputVars, files, logVars, active, fh, buffer, stdout_closed,
                 procVars, threadVars, pureVars, faults>>

\* proc.wait(timeout=timeout_s) raises TimeoutExpired and the notice is
\* written to the transcript
RsWaitTimeout ==
  /\ pc = "rs_wait"
  /\ faults < MaxFaults
  /\ faults' = faults + 1
  /\ timeout_s # <<>>
  /\ proc = "running"
  /\ files' = [files EXCEPT ![LabelOf(active)] = Append(@, "TIMEOUT notice")]
  /\ signals' = Append(signals, "notice")
  /\ pc' = "rs_terminate"
  /\ UNCHANGED <<cur, timeout_s, run_dir, resolved, verdicts, durations, rcs, overall,
                 summary, exitStatus, attempt_i, gemini_rc, gemini_out, gemini_dur, ret>>
  /\ UNCHANGED <<inputVars, logVars, callVars, proc, returncode, pipe_open, pipe,
                 written, threadVars, pureVars>>

\* a variant that kills at once instead of sending SIGTERM
RsTerminateKills ==
  /\ pc = "rs_terminate"
  /\ signals' = IF proc = "running" THEN Append(signals, "KILL") ELSE signals
  /\ pc' = "rs_grace"
  /\ UNCHANGED <<cur, timeout_s, run_dir, resolved, verdicts, durations, rcs, overall,
                 summary, exitStatus, attempt_i, gemini_rc, gemini_out, gemini_dur, ret>>
  /\ UNCHANGED <<inputVars, files, logVars, callVars, proc, returncode, pipe_open,
                 pipe, written, threadVars, pureVars, faults>>

\* proc.terminate(): SIGTERM, unless the subprocess has exited meanwhile
RsTerminate ==
  /\ pc = "rs_terminate"
  /\ signals' = IF proc = "running" THEN Append(signals, "TERM") ELSE signals
  /\ pc' = "rs_grace"
  /\ UNCHANGED <<cur, timeout_s, run_dir, resolved, verdicts, durations, rcs, overall,
                 summary, exitStatus, attempt_i, gemini_rc, gemini_out, gemini_dur, ret>>
  /\ UNCHANGED <<inputVars, files, logVars, callVars, proc, returncode, pipe_open,
                 pipe, written, threadVars, pureVars, faults>>

\* proc.wait(timeout=10) returns
RsGraceReturns ==
  /\ pc = "rs_grace"
  /\ proc = "exited"
  /\ rc' = returncode
  /\ pc' = "rs_close"
  /\ UNCHANGED <<cur, timeout_s, run_dir, resolved, verdicts, durations, rcs, overall,
                 summary, exitStatus, attempt_i, gemini_rc, gemini_out, gemini_dur, ret>>
  /\ UNCHANGED <<inputVars, files, logVars, active, fh, buffer, stdout_closed,
                 procVars, threadVars, pureVars, faults>>

\* a variant that gives up after the grace period: no kill, no further wait
RsGraceTimeoutGivesUp ==
  /\ pc = "rs_grace"
  /\ proc = "running"
  /\ rc' = RcSigTerm
  /\ pc' = "rs_close"
  /\ UNCHANGED <<cur, timeout_s, run_dir, resolved, verdicts, durations, rcs, overall,
                 summary, exitStatus, attempt_i, gemini_rc, gemini_out, gemini_dur, ret>>
  /\ UNCHANGED <<inputVars, files, logVars, active, fh, buffer, stdout_closed,
                 procVars, threadVars, pureVars, faults>>

\* proc.wait(timeout=10) raises TimeoutExpired: proc.kill()
RsGraceTimeout ==
  /\ pc = "rs_grace"
  /\ proc = "running"
  /\ signals' = Append(signals, "KILL")
  /\ pc' = "rs_killwait"
  /\ UNCHANGED <<cur, timeout_s, run_dir, resolved, verdicts, durations, rcs, overall,
                 summary, exitStatus, attempt_i, gemini_rc, gemini_out, gemini_dur, ret>>
  /\ UNCHANGED <<inputVars, files, logVars, callVars, proc, returncode, pipe_open,
                 pipe, written, threadVars, pureVars, faults>>

\* rc = proc.wait() after the kill
RsKillWait ==
  /\ pc = "rs_killwait"
  /\ proc = "exited"
  /\ rc' = returncode
  /\ pc' = "rs_close"
  /\ UNCHANGED <<cur, timeout_s, run_dir, resolved, verdicts, durations, rcs, overall,
                 summary, exitStatus, attempt_i, gemini_rc, gemini_out, gemini_dur, ret>>
  /\ UNCHANGED <<inputVars, files, logVars, active, fh, buffer, stdout_closed,
                 procVars, threadVars, pureVars, faults>>

\* proc.stdout.close(): it takes the lock of the buffered reader, which the
\* reader thread holds for as long as it is inside a read
RsCloseStdout ==
  /\ pc = "rs_close"
  /\ t[active] # "inread"
  /\ stdout_closed' = TRUE
  /\ pc' = "rs_join"
  /\ UNCHANGED <<cur, timeout_s, run_dir, resolved, verdicts, durations, rcs, overall,
                 summary, exitStatus, attempt_i, gemini_rc, gemini_out, gemini_dur, ret>>
  /\ UNCHANGED <<inputVars, files, logVars, active, fh, buffer, rc, procVars,
                 threadVars, pureVars, faults>>

\* t.join(timeout=5) returns, the thread finished or not, and the with block
\* is left: the transcript handle is closed
RsJoin ==
  /\ pc = "rs_join"
  /\ IF t[active] \in {"none", "dead"}
       THEN UNCHANGED faults
       ELSE faults < MaxFaults /\ faults' = faults + 1
  /\ fh' = "closed"
  /\ pc' = "rs_return"
  /\ UNCHANGED <<cur, timeout_s, run_dir, resolved, verdicts, durations, rcs, overall,
                 summary, exitStatus, attempt_i, gemini_rc, gemini_out, gemini_dur, ret>>
  /\ UNCHANGED <<inputVars, files, logVars, active, buffer, rc, stdout_closed,
                 procVars, threadVars, pureVars>>

\* return rc, "".join(buffer), dur_s
RsReturn ==
  /\ pc = "rs_return"
  /\ ret' = [rc |-> rc, out |-> buffer, dur |-> "measured"]
  /\ results' = Append(results, [cmd |-> active, rc |-> rc, out |-> buffer])
  /\ pc' = AfterCall
  /\ LeaveCall
  /\ UNCHANGED <<cur, timeout_s, run_dir, resolved, verdicts, durations, rcs, overall,
                 summary, exitStatus, attempt_i, gemini_rc, gemini_out, gemini_dur>>
  /\ UNCHANGED <<inputVars, files, launches, pureVars, faults>>

\* ------------------------------------------------------------------------
\* The subprocess
\* ------------------------------------------------------------------------

\* the subprocess, or a descendant that inherited its output, writes a line
ProcWrite(l) ==
  /\ pipe_open
  /\ ~stdout_closed
  /\ written < MaxLines
  /\ pipe' = Append(pipe, l)
  /\ written' = written + 1
  /\ UNCHANGED <<inputVars, mainVars, files, logVars, callVars, proc, returncode,
                 pipe_open, signals, threadVars, pureVars, faults>>

\* the return codes the subprocess can end with
ExitCodes ==
  OwnCodes
    \cup (IF \E i \in 1..Len(signals) : signals[i] = "TERM" THEN {RcSigTerm} ELSE {})
    \cup (IF \E i \in 1..Len(signals) : signals[i] = "KILL" THEN {RcSigKill} ELSE {})

\* the subprocess ends; a descendant may keep the write end of the pipe
ProcExit(code, held) ==
  /\ proc = "running"
  /\ IF held
       THEN faults < MaxFaults /\ faults' = faults + 1
       ELSE UNCHANGED faults
  /\ code \in ExitCodes
  /\ proc' = "exited"
  /\ returncode' = code
  /\ pipe_open' = held
  /\ UNCHANGED <<inputVars, mainVars, files, logVars, callVars, pipe, written, signals,
                 threadVars, pureVars>>

\* the last descendant holding the write end of the pipe ends
PipeRelease ==
  /\ proc = "exited"
  /\ pipe_open
  /\ pipe_open' = FALSE
  /\ UNCHANGED <<inputVars, mainVars, files, logVars, callVars, proc, returncode, pipe,
                 written, signals, threadVars, pureVars, faults>>

\* ------------------------------------------------------------------------
\* _stream_process_output, the reader thread of the call of command c
\* ------------------------------------------------------------------------

\* "for line in proc.stdout": the next line is asked for; on a closed stream
\* this raises ValueError, which ends the thread
WorkerNext(c) ==
  /\ t[c] = "next"
  /\ c = active
  /\ t' = [t EXCEPT ![c] = IF ~stdout_closed THEN "inread" ELSE "dead"]
  /\ UNCHANGED <<inputVars, mainVars, files, logVars, callVars, procVars, tline,
                 pureVars, faults>>

\* the read returns a line, or end of file once nothing holds the write end
WorkerRead(c) ==
  /\ t[c] = "inread"
  /\ c = active
  /\ IF pipe # <<>>
       THEN /\ tline' = [tline EXCEPT ![c] = Head(pipe)]
            /\ pipe' = Tail(pipe)
            /\ t' = [t EXCEPT ![c] = "persist"]
       ELSE /\ ~pipe_open
            /\ t' = [t EXCEPT ![c] = "dead"]
            /\ UNCHANGED <<tline, pipe>>
  /\ UNCHANGED <<inputVars, mainVars, files, logVars, callVars, proc, returncode,
                 pipe_open, written, signals, pureVars, faults>>

\* the line goes to sys.stdout and to the transcript; writing to a closed
\* handle raises ValueError, which ends the thread
WorkerPersist(c) ==
  /\ t[c] = "persist"
  /\ c = active
  /\ IF fh = "open"
       THEN /\ files' = [files EXCEPT ![LabelOf(c)] = Append(@, tline[c])]
            /\ t' = [t EXCEPT ![c] = "append"]
            /\ UNCHANGED tline
       ELSE /\ t' = [t EXCEPT ![c] = "dead"]
            /\ tline' = [tline EXCEPT ![c] = "-"]
            /\ UNCHANGED files
  /\ UNCHANGED <<inputVars, mainVars, logVars, callVars, procVars, pureVars, faults>>

\* buffer.append(line)
WorkerAppend(c) ==
  /\ t[c] = "append"
  /\ c = active
  /\ buffer' = Append(buffer, tline[c])
  /\ tline' = [tline EXCEPT ![c] = "-"]
  /\ t' = [t EXCEPT ![c] = "next"]
  /\ UNCHANGED <<inputVars, mainVars, files, logVars, active, fh, rc, stdout_closed,
                 procVars, pureVars, faults>>

\* a reader thread left behind by a call that has returned runs into the
\* closed stream or the closed handle and ends
WorkerStaleEnds(c) ==
  /\ t[c] = "stale"
  /\ t' = [t EXCEPT ![c] = "dead"]
  /\ UNCHANGED <<inputVars, mainVars, files, logVars, callVars, procVars, tline,
                 pureVars, faults>>

\* ------------------------------------------------------------------------
\* The specification
\* ------------------------------------------------------------------------

MainStep ==
  \/ MainCheckFile
  \/ MainMkdir
  \/ \E a \in Agents : AgentMissing(a)
  \/ \E a \in Agents : AgentFound(a)
  \/ \E a \in Agents : AgentRecord(a)
  \/ GeminiFound
  \/ GeminiIter
  \/ GeminiAfter
  \/ GeminiRecord
  \/ MainOverall
  \/ MainSummary
  \/ RsOpen
  \/ RsPopenStarted
  \/ RsPopenNotFound
  \/ RsPopenRaises
  \/ RsWaitReturns
  \/ RsWaitTimeout
  \/ RsTerminate
  \/ RsGraceReturns
  \/ RsGraceTimeout
  \/ RsKillWait
  \/ RsCloseStdout
  \/ RsJoin
  \/ RsReturn

WorkerStep ==
  \E c \in Cmds :
    \/ WorkerNext(c)
    \/ WorkerRead(c)
    \/ WorkerPersist(c)
    \/ WorkerAppend(c)
    \/ WorkerStaleEnds(c)

ProcStep ==
  \/ \E l \in Lines : ProcWrite(l)
  \/ \E code \in OwnCodes \cup {RcSigTerm, RcSigKill}, held \in BOOLEAN :
       ProcExit(code, held)
  \/ PipeRelease

Next == MainStep \/ WorkerStep \/ ProcStep

\* the whole program, for every input
Spec == Init /\ [][Next]_vars

\* the agents _which has found so far
Found == {a \in Agents : resolved[a] = "found"}

\* the runs in which at most one of the three agents is installed
NextSolo == Next /\ Cardinality(Found') <= 1

SpecSolo == Init /\ [][NextSolo]_vars

\* Scheduling: the main thread and the reader threads keep running, and a
\* subprocess that was sent SIGKILL ends.  Nothing makes a subprocess write,
\* end of its own accord or react to SIGTERM, and nothing makes a descendant
\* let go of the pipe.
ProcKilled ==
  /\ \E i \in 1..Len(signals) : signals[i] = "KILL"
  /\ \E code \in OwnCodes \cup {RcSigTerm, RcSigKill}, held \in BOOLEAN :
       ProcExit(code, held)

\* this scheduling, for the runs with at most one agent installed
FairSolo ==
  /\ Init
  /\ [][NextSolo]_vars
  /\ WF_vars(MainStep /\ Cardinality(Found') <= 1)
  /\ WF_vars(WorkerStep)
  /\ WF_vars(ProcKilled)

\* ------------------------------------------------------------------------
\* _overall on its own
\* ------------------------------------------------------------------------

\* the dicts with some of the agents as keys, in any insertion order, and
\* verdicts as values
RECURSIVE DictsOver(_)
DictsOver(keys) ==
  {<<>>} \cup
  UNION {{<<<<k, v>>>> \o d : v \in Verdicts, d \in DictsOver(keys \ {k})} : k \in keys}

InitOverall ==
  /\ fileExists = FALSE
  /\ args_timeout_s = 0
  /\ InitMain
  /\ arg_verdicts \in DictsOver(Agents)
  /\ ret_overall = "none"
  /\ NoPrompt
  /\ text_out = <<>>
  /\ ret_verdict = "none"
  /\ NoRuns

\* ret_overall = _overall(arg_verdicts)
CallOverall ==
  /\ ret_overall = "none"
  /\ pc = "start"
  /\ ret_overall' = Overall(arg_verdicts)
  /\ UNCHANGED <<inputVars, mainVars, files, logVars, callVars, procVars, threadVars,
                 envVars, arg_verdicts, text_out, ret_verdict, now, args_of, run_dir_of,
                 promptVars>>

SpecOverall == InitOverall /\ [][CallOverall]_vars

\* ------------------------------------------------------------------------
\* The run directories of several runs of main
\* ------------------------------------------------------------------------

\* Last second of the clock.
MaxClock == 2

\* values of --chunk and of --outdir
ChunkArgs == {1, 2}

OutdirArgs == {"out", "elsewhere"}

\* the variables a run of main has besides its run directory
mainState ==
  <<inputVars, mainVars, files, logVars, callVars, procVars, threadVars, envVars>>

InitRuns ==
  /\ fileExists = TRUE
  /\ args_timeout_s = DefaultTimeout
  /\ InitMain
  /\ arg_verdicts = <<>>
  /\ ret_overall = "none"
  /\ text_out = <<>>
  /\ ret_verdict = "none"
  /\ now = 0
  /\ args_of \in [Runs -> [chunk : ChunkArgs, outdir : OutdirArgs]]
  /\ run_dir_of = [r \in Runs |-> <<>>]
  /\ NoPrompt

\* a second passes
Tick ==
  /\ now < MaxClock
  /\ now' = now + 1
  /\ UNCHANGED <<mainState, arg_verdicts, ret_overall, text_out, ret_verdict, args_of,
                 run_dir_of, promptVars>>

\* _timestamp: the local time, to the second
Timestamp == now

\* run r of main: ts = _timestamp(), run_dir = outdir / "{ts}-chunk{chunk}",
\* run_dir.mkdir(parents=True, exist_ok=True)
MainRunDir(r) ==
  /\ run_dir_of[r] = <<>>
  /\ run_dir_of' =
       [run_dir_of EXCEPT ![r] = <<args_of[r].outdir, Timestamp, args_of[r].chunk>>]
  /\ UNCHANGED <<mainState, arg_verdicts, ret_overall, text_out, ret_verdict, now,
                 args_of, promptVars>>

NextRuns == Tick \/ \E r \in Runs : MainRunDir(r)

SpecRuns == InitRuns /\ [][NextRuns]_vars

\* ------------------------------------------------------------------------
\* _parse_verdict on its own
\* ------------------------------------------------------------------------

\* Number of "key separator value" lines in a text given to _parse_verdict.
MaxSegs == 2

\* spellings of the key, of the separator and of the value
KeyTexts ==
  { W_VERDICT,
    <<"v", "e", "r", "d", "i", "c", "t">>,
    <<"V", "E", "R", "D", "<U+0130>", "C", "T">>,
    <<"x", "V", "E", "R", "D", "I", "C", "T">> }

SepTexts ==
  { <<":">>, <<" ", ":", "\t">>, <<"<U+00A0>", ":">>, <<" ">> }

ValueTexts ==
  { W_PASS,
    <<"f", "a", "i", "l">>,
    <<"F", "A", "<U+0130>", "L">>,
    <<"f", "a", "<U+0131>", "l">>,
    <<"P", "A", "<U+017F>", "<U+017F>">>,
    <<"U", "n", "c", "l", "e", "a", "r">>,
    <<"M", "A", "Y", "B", "E">>,
    <<"P", "A", "S", "S", "E", "D">> }

SegTexts == {k \o p \o v \o <<"\n">> : k \in KeyTexts, p \in SepTexts, v \in ValueTexts}

\* the texts of at most n lines
RECURSIVE TextsUpTo(_)
TextsUpTo(n) ==
  IF n = 0 THEN {<<>>}
  ELSE LET shorter == TextsUpTo(n - 1)
       IN shorter \cup {g \o x : g \in SegTexts, x \in shorter}

InitParse ==
  /\ fileExists = FALSE
  /\ args_timeout_s = 0
  /\ InitMain
  /\ arg_verdicts = <<>>
  /\ ret_overall = "none"
  /\ text_out \in TextsUpTo(MaxSegs)
  /\ ret_verdict = "none"
  /\ NoRuns
  /\ NoPrompt

\* ret_verdict = _parse_verdict(text_out)
CallParse ==
  /\ ret_verdict = "none"
  /\ pc = "start"
  /\ ret_verdict' = ParseVerdict(text_out)
  /\ UNCHANGED <<inputVars, mainVars, files, logVars, callVars, procVars, threadVars,
                 envVars, arg_verdicts, ret_overall, text_out, now, args_of, run_dir_of,
                 promptVars>>

SpecParse == InitParse /\ [][CallParse]_vars



\* ------------------------------------------------------------------------
\* build_prompt, and an agent that repeats the prompt before its report
\* ------------------------------------------------------------------------

\* build_prompt's template, the text before the first chunk number
PromptHead ==
  <<"Y", "o", "u", " ", "a", "r", "e", " ", "a", "n", " ", "a", "u", "t", "o", "m", "a",
    "t", "e", "d", " ", "c", "o", "d", "e", " ", "r", "e", "v", "i", "e", "w", "e", "r",
    ".", "\n", "\n", "T", "a", "s", "k", ":", " ", "d", "e", "t", "e", "r", "m", "i", "n",
    "e", " ", "w", "h", "e", "t", "h", "e", "r", " ", "c", "h", "u", "n", "k", " ", "#">>

\* build_prompt's template, between the chunk number and the file path, first time
PromptDescribedIn ==
  <<" ", "d", "e", "s", "c", "r", "i", "b", "e", "d", " ", "i", "n", " ">>

\* build_prompt's template, from the first file path to the second chunk number
PromptTask ==
  <<" ", "h", "a", "s", " ", "b", "e", "e", "n", " ", "i", "m", "p", "l", "e", "m", "e",
    "n", "t", "e", "d", " ", "c", "o", "r", "r", "e", "c", "t", "l", "y", " ", "i", "n",
    " ", "t", "h", "i", "s", " ", "r", "e", "p", "o", "s", "i", "t", "o", "r", "y", ".",
    "\n", "\n", "R", "u", "l", "e", "s", ":", "\n", "-", " ", "D", "O", " ", "N", "O", "T",
    " ", "e", "d", "i", "t", " ", "a", "n", "y", " ", "c", "o", "d", "e", ",", " ", "d",
    "o", " ", "n", "o", "t", " ", "a", "p", "p", "l", "y", " ", "p", "a", "t", "c", "h",
    "e", "s", ",", " ", "d", "o", " ", "n", "o", "t", " ", "w", "r", "i", "t", "e", " ",
    "f", "i", "l", "e", "s", ",", " ", "d", "o", " ", "n", "o", "t", " ", "c", "o", "m",
    "m", "i", "t", ".", "\n", "-", " ", "Y", "o", "u", " ", "M", "A", "Y", " ", "r", "e",
    "a", "d", " ", "f", "i", "l", "e", "s", " ", "a", "n", "d", " ", "r", "u", "n", " ",
    "s", "c", "r", "i", "p", "t", "s", "/", "t", "e", "s", "t", "s", "/", "l", "i", "n",
    "t", "e", "r", "s", " ", "t", "o", " ", "v", "e", "r", "i", "f", "y", ".", "\n", "-",
    " ", "L", "o", "c", "a", "t", "e", " ", "t", "h", "e", " ", "e", "x", "a", "c", "t",
    " ", "s", "e", "c", "t", "i", "o", "n", " ", "f", "o", "r", " ", "c", "h", "u", "n",
    "k", " ", "#">>

\* build_prompt's template, between the chunk number and the file path, second time
PromptInside ==
  <<" ", "i", "n", "s", "i", "d", "e", " ">>

\* build_prompt's template, from the second file path to the end: the rest of the rules and the report format
PromptRules ==
  <<" ", "y", "o", "u", "r", "s", "e", "l", "f", " ", "(", "e", ".", "g", ".", ",", " ",
    "u", "s", "i", "n", "g", " ", "s", "e", "a", "r", "c", "h", "/", "g", "r", "e", "p",
    ")", " ", "a", "n", "d", " ", "r", "e", "s", "t", "a", "t", "e", " ", "i", "t", " ",
    "b", "r", "i", "e", "f", "l", "y", " ", "(", "1", "-", "3", " ", "s", "e", "n", "t",
    "e", "n", "c", "e", "s", ")", " ", "b", "e", "f", "o", "r", "e", " ", "e", "v", "a",
    "l", "u", "a", "t", "i", "n", "g", ".", "\n", "-", " ", "B", "e", " ", "s", "t", "r",
    "i", "c", "t", ":", " ", "i", "f", " ", "r", "e", "q", "u", "i", "r", "e", "m", "e",
    "n", "t", "s", " ", "a", "r", "e", " ", "a", "m", "b", "i", "g", "u", "o", "u", "s",
    " ", "o", "r", " ", "p", "a", "r", "t", "i", "a", "l", "l", "y", " ", "i", "m", "p",
    "l", "e", "m", "e", "n", "t", "e", "d", ",", " ", "s", "a", "y", " ", "U", "N", "C",
    "L", "E", "A", "R", " ", "o", "r", " ", "F", "A", "I", "L", ".", "\n", "-", " ", "R",
    "e", "p", "o", "r", "t", " ", "w", "i", "t", "h", " ", "t", "h", "e", " ", "e", "x",
    "a", "c", "t", " ", "f", "o", "r", "m", "a", "t", ":", "\n", "\n", "V", "E", "R", "D",
    "I", "C", "T", ":", " ", "P", "A", "S", "S", "|", "F", "A", "I", "L", "|", "U", "N",
    "C", "L", "E", "A", "R", "\n", "C", "O", "N", "F", "I", "D", "E", "N", "C", "E", ":",
    " ", "0", "-", "1", "0", "0", "\n", "E", "V", "I", "D", "E", "N", "C", "E", ":", "\n",
    "-", " ", "b", "u", "l", "l", "e", "t", " ", "p", "o", "i", "n", "t", "s", " ", "r",
    "e", "f", "e", "r", "e", "n", "c", "i", "n", "g", " ", "s", "p", "e", "c", "i", "f",
    "i", "c", " ", "f", "i", "l", "e", "s", "/", "f", "u", "n", "c", "t", "i", "o", "n",
    "s", "/", "l", "i", "n", "e", "s", " ", "(", "o", "r", " ", "t", "e", "s", "t", " ",
    "o", "u", "t", "p", "u", "t", "s", ")", "\n", "G", "A", "P", "S", ":", "\n", "-", " ",
    "b", "u", "l", "l", "e", "t", " ", "p", "o", "i", "n", "t", "s", " ", "o", "f", " ",
    "w", "h", "a", "t", "'", "s", " ", "m", "i", "s", "s", "i", "n", "g", "/", "i", "n",
    "c", "o", "r", "r", "e", "c", "t", " ", "(", "i", "f", " ", "a", "n", "y", ")", "\n",
    "C", "O", "M", "M", "A", "N", "D", "S", "_", "R", "U", "N", ":", "\n", "-", " ", "b",
    "u", "l", "l", "e", "t", " ", "l", "i", "s", "t", " ", "(", "o", "r", " ", "'", "n",
    "o", "n", "e", "'", ")", "\n">>

\* str() of a natural number
RECURSIVE NatText(_)
NatText(n) ==
  IF n < 10 THEN <<DigitSeq[n + 1]>>
  ELSE NatText(n \div 10) \o <<DigitSeq[(n % 10) + 1]>>

\* "{chunk}" in the f-string: str() of an int
IntText(n) == IF n < 0 THEN <<"-">> \o NatText(0 - n) ELSE NatText(n)

\* build_prompt(file_path, chunk)
BuildPrompt(file_pathArg, chunkArg) ==
  PromptHead \o IntText(chunkArg) \o PromptDescribedIn \o file_pathArg
    \o PromptTask \o IntText(chunkArg) \o PromptInside \o file_pathArg
    \o PromptRules

\* values of --file and of --chunk
FilePaths ==
  { <<"p", "l", "a", "n", ".", "m", "d">>,
    <<"d", "o", "c", "s", "/", "t", "o", "d", "o", ".", "m", "d">>,
    <<"s", "p", "e", "c", "_", "v", "2", ".", "t", "x", "t">>,
    <<"m", "y", " ", "p", "l", "a", "n">> }

PromptChunks == {1, 2, 10, 12}

\* the line that opens an agent's report
ReportLine(v) ==
  W_VERDICT \o <<":", " ">>
    \o (CASE v = "PASS" -> W_PASS [] v = "FAIL" -> W_FAIL [] v = "UNCLEAR" -> W_UNCLEAR)
    \o <<"\n">>

InitPrompt ==
  /\ fileExists = TRUE
  /\ args_timeout_s = DefaultTimeout
  /\ InitMain
  /\ arg_verdicts = <<>>
  /\ ret_overall = "none"
  /\ text_out = <<>>
  /\ ret_verdict = "none"
  /\ NoRuns
  /\ file_path \in FilePaths
  /\ chunk \in PromptChunks
  /\ prompt = <<>>
  /\ own = "none"

\* prompt = build_prompt(file_path=file_path, chunk=chunk)
MainBuildPrompt ==
  /\ prompt = <<>>
  /\ prompt' = BuildPrompt(file_path, chunk)
  /\ UNCHANGED <<mainState, arg_verdicts, ret_overall, text_out, ret_verdict, now,
                 args_of, run_dir_of, file_path, chunk, own>>

\* the agent is given the prompt on its command line, prints it back or not,
\* then prints its report, and exits 0: text_out is the output captured
AgentReports(echo, v) ==
  /\ prompt # <<>>
  /\ text_out = <<>>
  /\ text_out' = (IF echo THEN prompt ELSE <<>>) \o ReportLine(v)
  /\ own' = v
  /\ UNCHANGED <<mainState, arg_verdicts, ret_overall, ret_verdict, now, args_of,
                 run_dir_of, file_path, chunk, prompt>>

\* verdicts[name] = _parse_verdict(out) if rc == 0 else "UNCLEAR", for rc 0
MainParsesReport ==
  /\ text_out # <<>>
  /\ ret_verdict = "none"
  /\ ret_verdict' = ParseVerdict(text_out)
  /\ UNCHANGED <<mainState, arg_verdicts, ret_overall, text_out, now, args_of,
                 run_dir_of, promptVars>>

NextPrompt ==
  \/ MainBuildPrompt
  \/ \E echo \in BOOLEAN, v \in Verdicts : AgentReports(echo, v)
  \/ MainParsesReport

SpecPrompt == InitPrompt /\ [][NextPrompt]_vars

\* ------------------------------------------------------------------------
\* Properties
\* ------------------------------------------------------------------------

\* main has reached the aggregation (or is past it)
Aggregating == pc \in {"overall", "summary"} \/ (pc = "done" /\ fileExists)

\* number of items of dict d with key k
Count(d, k) == Cardinality({i \in 1..Len(d) : d[i][1] = k})

\* the command lines of agent a that run_streaming was called with
LaunchesOf(a) == SelectSeq(launches, LAMBDA c : LabelOf(c) = a)

\* the results in hand are those of agent a
ResultsOf(a) == results # <<>> /\ LabelOf(results[1].cmd) = a

\* gemini is being handled, or its results are still in hand
GeminiInHand == (cur # 0 /\ AgentOrder[cur] = "gemini") \/ ResultsOf("gemini")

\* what a reader takes a line to say: the verdict it carries, "" for none
LineVerdict(l) ==
  IF l \in {"L_pass", "L_unknown_pass"} THEN "PASS"
  ELSE IF l = "L_fail" THEN "FAIL"
  ELSE ""

\* the verdict of the first line of out that carries one
RECURSIVE FirstVerdict(_)
FirstVerdict(out) ==
  IF out = <<>> THEN "UNCLEAR"
  ELSE IF LineVerdict(Head(out)) # "" THEN LineVerdict(Head(out))
  ELSE FirstVerdict(Tail(out))

\* out has a line that complains of an unknown option or argument
HasFlagLine(out) ==
  \E i \in 1..Len(out) : out[i] \in {"L_unknown", "L_unknown_pass", "M_not_found_odd"}

\* C1: once the input file check has passed, the exit status of main is 0
\* exactly when all three agents were found, ended with return code 0 and
\* have verdict PASS, 1 exactly when some agent ended with return code 0 and
\* verdict FAIL, and 3 in every other case.
C1_ExitStatus ==
  (pc = "done" /\ fileExists) =>
    LET good(a) == /\ resolved[a] = "found"
                   /\ DictGet(rcs, a) = 0
                   /\ DictGet(verdicts, a) = "PASS"
        bad(a) == DictGet(rcs, a) = 0 /\ DictGet(verdicts, a) = "FAIL"
    IN /\ exitStatus \in {<<0>>, <<1>>, <<3>>}
       /\ exitStatus = <<0>> <=> \A a \in Agents : good(a)
       /\ exitStatus = <<1>> <=> \E a \in Agents : bad(a)

C1_Witness ==
  /\ pc = "done"
  /\ exitStatus = <<0>>
  /\ \A a \in Agents : DictGet(verdicts, a) = "PASS" /\ DictGet(rcs, a) = 0

\* C2: _overall gives UNCLEAR for the empty mapping, FAIL when some value is
\* FAIL, PASS when all values are PASS, UNCLEAR otherwise: a function of the
\* set of the values alone.
C2_OverallReduction ==
  ret_overall # "none" =>
    LET vals == {arg_verdicts[i][2] : i \in 1..Len(arg_verdicts)}
    IN ret_overall = IF vals = {} THEN "UNCLEAR"
                     ELSE IF "FAIL" \in vals THEN "FAIL"
                     ELSE IF vals = {"PASS"} THEN "PASS"
                     ELSE "UNCLEAR"

C2_Witness ==
  /\ ret_overall = "UNCLEAR"
  /\ Len(arg_verdicts) = 3
  /\ arg_verdicts[1][2] = "PASS"
  /\ arg_verdicts[2][2] = "UNCLEAR"
  /\ arg_verdicts[3][2] = "PASS"

\* C3: the return code recorded for an agent is that of its last invocation,
\* and when it is not 0 the verdict recorded is UNCLEAR, whatever the output.
C3_NonZeroIsUnclear ==
  \A a \in Agents :
    DictHas(rcs, a) =>
      /\ DictGet(rcs, a) # 0 => DictGet(verdicts, a) = "UNCLEAR"
      /\ ResultsOf(a) => DictGet(rcs, a) = results[Len(results)].rc

C3_Witness ==
  \E a \in Agents :
    /\ DictHas(rcs, a)
    /\ ResultsOf(a)
    /\ results[Len(results)].rc = 1
    /\ FirstVerdict(results[Len(results)].out) = "PASS"
    /\ DictGet(verdicts, a) = "UNCLEAR"

\* C4: gemini is attempted at most twice, and a second time exactly when the
\* first attempt returned a non-zero code with an output that names an
\* unknown option or argument; codex and claude are attempted at most once.
C4_GeminiRetry ==
  /\ Len(LaunchesOf("codex")) <= 1
  /\ Len(LaunchesOf("claude")) <= 1
  /\ Len(LaunchesOf("gemini")) <= 2
  /\ Len(LaunchesOf("gemini")) = 2 => LaunchesOf("gemini") = GeminiCmd
  /\ (Len(LaunchesOf("gemini")) = 2 /\ GeminiInHand) =>
       /\ ResultsOf("gemini")
       /\ results[1].rc # 0
       /\ HasFlagLine(results[1].out)
  /\ (DictHas(rcs, "gemini") /\ ResultsOf("gemini")
        /\ results[1].rc # 0 /\ HasFlagLine(results[1].out)) =>
       Len(LaunchesOf("gemini")) = 2

C4_Witness ==
  /\ DictHas(rcs, "gemini")
  /\ Len(LaunchesOf("gemini")) = 2
  /\ Len(results) = 2
  /\ results[1].out = <<"L_unknown">>

\* C5: the return code and the verdict recorded for gemini are those of the
\* last attempt made, and of that attempt alone.
C5_LastAttemptOnly ==
  (DictHas(rcs, "gemini") /\ ResultsOf("gemini")) =>
    LET r == results[Len(results)]
    IN /\ DictGet(rcs, "gemini") = r.rc
       /\ DictGet(verdicts, "gemini") =
            IF r.rc = 0 THEN FirstVerdict(r.out) ELSE "UNCLEAR"

C5_Witness ==
  /\ DictHas(rcs, "gemini")
  /\ Len(results) = 2
  /\ LabelOf(results[1].cmd) = "gemini"
  /\ FirstVerdict(results[1].out) = "PASS"
  /\ results[2].rc = 1
  /\ DictGet(rcs, "gemini") = 1
  /\ DictGet(verdicts, "gemini") = "UNCLEAR"


\* a is a subsequence of b: the items of a occur in b, in this order
RECURSIVE IsSubseq(_, _)
IsSubseq(a, b) ==
  IF a = <<>> THEN TRUE
  ELSE IF b = <<>> THEN FALSE
  ELSE IF Head(a) = Head(b) THEN IsSubseq(Tail(a), Tail(b))
  ELSE IsSubseq(a, Tail(b))

\* C6: after a gemini retry the transcript holds, in this order, the header
\* and the captured output of the first attempt, the separator, the header
\* and the captured output of the second attempt.
C6_RetryKeepsFirstAttempt ==
  (ResultsOf("gemini") /\ Len(results) = 2) =>
    IsSubseq(<<results[1].cmd>> \o results[1].out \o <<"RETRY separator">>
               \o <<results[2].cmd>> \o results[2].out,
             files["gemini"])

\* C7: at the aggregation every agent has exactly one recorded verdict,
\* return code and duration and its transcript exists; an agent that was
\* not found was never launched and has UNCLEAR, 127 and a duration of 0;
\* the agents that were found were launched.
C7_OneResultEach ==
  Aggregating =>
    \A a \in Agents :
      /\ Count(verdicts, a) = 1 /\ Count(rcs, a) = 1 /\ Count(durations, a) = 1
      /\ Len(verdicts) = 3 /\ Len(rcs) = 3 /\ Len(durations) = 3
      /\ run_dir /\ files[a] # "absent"
      /\ resolved[a] \in {"found", "None"}
      /\ resolved[a] = "None" =>
           /\ LaunchesOf(a) = <<>>
           /\ DictGet(verdicts, a) = "UNCLEAR"
           /\ DictGet(rcs, a) = RcNotFound
           /\ DictGet(durations, a) = "0.0"
      /\ resolved[a] = "found" => LaunchesOf(a) # <<>>

C7_Witness ==
  /\ pc = "overall"
  /\ resolved = [a \in Agents |-> IF a = "codex" THEN "None" ELSE "found"]
  /\ DictGet(rcs, "codex") = RcNotFound
  /\ DictGet(verdicts, "gemini") = "PASS"
  /\ DictGet(verdicts, "claude") = "FAIL"

\* the model's bound on upsets, not the code, keeps the timeout from expiring
TimerStarved ==
  pc = "rs_wait" /\ timeout_s # <<>> /\ proc = "running" /\ faults >= MaxFaults

\* C8: once the input file check has passed main always finishes, whatever
\* the agents do: it prints the summary and returns an exit status.  Stated
\* for the runs with the timeout enabled, and leaving aside the runs that
\* end with an exception out of a launch.
C8_AlwaysFinishes ==
  (fileExists /\ args_timeout_s # 0) =>
    <>((pc = "done" /\ summary /\ exitStatus # <<>>) \/ pc = "raised" \/ TimerStarved)

\* C9: no failure of launching or running a subprocess leaves run_streaming,
\* and so main, as an exception.
C9_NeverRaises == pc # "raised"

\* C10: when the input file does not exist main returns 2 and nothing else
\* happens: no agent is resolved or launched, the run directory is not
\* created, no overall verdict is computed and no summary printed; 2 is
\* returned in no other case.
C10_InputMissing ==
  /\ ~fileExists =>
       /\ pc \in {"start", "done"}
       /\ pc = "done" => exitStatus = <<2>>
       /\ ~run_dir
       /\ \A a \in Agents : resolved[a] = "unset" /\ files[a] = "absent"
       /\ launches = <<>>
       /\ overall = "none"
       /\ ~summary
  /\ fileExists => exitStatus # <<2>>

C10_Witness == ~fileExists /\ pc = "done" /\ exitStatus = <<2>> /\ ~run_dir

\* position of agent a in the program order
AgentIndex(a) == CHOOSE i \in 1..Len(AgentOrder) : AgentOrder[i] = a

\* C11: the agents are launched in the order codex, gemini, claude and their
\* subprocesses never overlap: a subprocess runs only inside the call made
\* for the agent being handled, a call ends only after its subprocess has
\* exited, and when a subprocess is about to be launched no earlier one is
\* left and the result of every earlier agent has been recorded.
C11_SequentialAgents ==
  /\ \A i, j \in 1..Len(launches) :
       i < j => AgentIndex(LabelOf(launches[i])) <= AgentIndex(LabelOf(launches[j]))
  /\ proc = "running" =>
       /\ active # "none" /\ cur # 0
       /\ LabelOf(active) = AgentOrder[cur]
       /\ launches[Len(launches)] = active
  /\ pc \in {"rs_close", "rs_join", "rs_return"} => proc = "exited"
  /\ pc \in {"rs_open", "rs_popen"} =>
       /\ proc = "none"
       /\ \A b \in Agents :
            AgentIndex(b) < cur =>
              /\ DictHas(rcs, b) /\ DictHas(verdicts, b) /\ DictHas(durations, b)
              /\ resolved[b] # "unset"

C11_Witness ==
  /\ pc = "rs_popen"
  /\ active = "claude"
  /\ resolved["codex"] = "found"
  /\ LaunchesOf("gemini") = GeminiCmd
  /\ DictGet(rcs, "gemini") = RcSigKill

\* main has ended, by returning after the file check or by an exception
Ended == fileExists /\ pc \in {"done", "raised"}

\* C12: failure isolation.  Two runs that differ in the behaviour of one
\* agent only record the same return code and verdict for every other
\* agent.  In the runs where at most one agent is installed the other agents
\* behave alike in all runs (they are missing), so what is recorded for them
\* is the same at the end of every run: 127 and UNCLEAR.
C12_FailureIsolation ==
  Ended =>
    \A b \in Agents :
      resolved[b] # "found" =>
        /\ DictHas(rcs, b) /\ DictHas(verdicts, b)
        /\ DictGet(rcs, b) = RcNotFound
        /\ DictGet(verdicts, b) = "UNCLEAR"

\* the transcript of agent a holds the timeout notice of its last attempt
TimedOut(a) ==
  /\ files[a] # "absent"
  /\ \E i \in 1..Len(files[a]) : files[a][i] = "TIMEOUT notice"

\* C13: an agent whose timeout expired is recorded with a non-zero return
\* code and the verdict UNCLEAR, whatever it printed and however it reacted
\* to the termination signal.
C13_TimeoutIsUnclear ==
  \A a \in Agents :
    (DictHas(rcs, a) /\ DictHas(verdicts, a) /\ TimedOut(a)) =>
      DictGet(rcs, a) # 0 /\ DictGet(verdicts, a) = "UNCLEAR"

\* the name of the n-th alternative of the pattern
VerdictName(n) == IF n = 1 THEN "PASS" ELSE IF n = 2 THEN "FAIL" ELSE "UNCLEAR"

\* positions of the text where the whole token matches
VerdictHits(s) == {i \in 1..Len(s) : VerdictMatchAt(s, i) # 0}

\* C14: _parse_verdict returns UNCLEAR when the text holds no token, and
\* otherwise the value of the first token of the text, in upper case: the
\* one of PASS, FAIL, UNCLEAR that its value is, whatever the case.
C14_ParseVerdict ==
  ret_verdict # "none" =>
    IF VerdictHits(text_out) = {}
      THEN ret_verdict = "UNCLEAR"
      ELSE LET first == CHOOSE h \in VerdictHits(text_out) :
                          \A g \in VerdictHits(text_out) : h <= g
           IN ret_verdict = VerdictName(VerdictMatchAt(text_out, first))

\* run_streaming has just returned its result for a command not found
ReturnedNotFound ==
  /\ pc \in {"record", "g_after"}
  /\ ret.out \in {<<"M_not_found">>, <<"M_not_found_odd">>}

\* C15: for a command whose executable does not exist run_streaming creates
\* no subprocess and no reader thread, writes the "command not found" line
\* after the header and returns 127, the message and a duration of 0; in the
\* gemini loop this result is never followed by the fallback attempt.
C15_CommandNotFound ==
  /\ ReturnedNotFound =>
       /\ ret.rc = RcNotFound /\ ret.dur = "0.0"
       /\ proc = "none"
       /\ t[launches[Len(launches)]] = "none"
       /\ files[AgentOrder[cur]] = <<launches[Len(launches)], "command not found">>
  /\ (ResultsOf("gemini") /\ results[1].rc = RcNotFound) => Len(results) = 1

\* C16: two distinct runs of main never use the same run directory.
C16_OwnRunDirectory ==
  \A r1, r2 \in Runs :
    (r1 # r2 /\ run_dir_of[r1] # <<>> /\ run_dir_of[r2] # <<>>) =>
      run_dir_of[r1] # run_dir_of[r2]

\* the reader thread of the call of command c has been started and has not
\* ended
Alive(c) == t[c] \notin {"none", "dead"}

\* C17: the orchestrating thread leaves the with block (which closes the
\* transcript) and builds the returned output text only after the reader
\* thread of the call has ended.
C17_JoinBeforeRead ==
  (pc = "rs_return" \/ fh = "closed") => ~Alive(active)

\* C18: from the start of the reader thread of a call until the thread has
\* ended, every write to a transcript is a write of that thread (the step of
\* WorkerPersist that takes it from "persist" to "append").
C18_OnlyWorkerWrites ==
  [][(active # "none" /\ Alive(active) /\ files' # files) =>
       (t[active] = "persist" /\ t'[active] = "append")]_vars

\* C19: at every moment at most one reader thread is alive.
C19_OneWorkerAlive == Cardinality({c \in Cmds : Alive(c)}) <= 1

\* C20: the cancellation steps come in a fixed order and only after the
\* timeout has expired: the notice is written while the subprocess is still
\* running under an enabled timeout, SIGTERM is sent after the notice, and
\* SIGKILL only after SIGTERM, when the wait of the grace period ends with the
\* subprocess still running; nothing else is ever done to a subprocess.
C20_CancellationOrder ==
  [][(signals' # signals) =>
       \/ /\ pc = "rs_wait" /\ proc = "running" /\ timeout_s # <<>>
          /\ signals = <<>> /\ signals' = <<"notice">>
          /\ files'[LabelOf(active)] = Append(files[LabelOf(active)], "TIMEOUT notice")
       \/ /\ pc = "rs_terminate" /\ proc = "running"
          /\ signals = <<"notice">> /\ signals' = <<"notice", "TERM">>
       \/ /\ pc = "rs_grace" /\ proc = "running"
          /\ signals = <<"notice", "TERM">> /\ signals' = <<"notice", "TERM", "KILL">>
       \/ /\ pc \in {"rs_return", "rs_popen"}
          /\ signals' = <<>>]_vars

C20_Witness ==
  /\ pc = "rs_close"
  /\ signals = <<"notice", "TERM", "KILL">>
  /\ rc = RcSigKill

\* C21: a stuck reader cannot hang the run.  Once the subprocess has exited
\* or been killed and its return code is in hand, run_streaming closes the
\* read side of the stream, makes its bounded join attempt and returns to
\* main, even if the reader thread stays blocked reading the stream.
C21_StuckReaderReturns ==
  (pc = "rs_close") ~> (pc \in {"record", "g_after"})

\* C22: no captured output is lost.  When the subprocess has exited of its
\* own accord before the timeout, leaving nothing behind that holds the pipe,
\* and the reader thread has ended before the join, the output that
\* run_streaming returns holds every line the subprocess wrote, and so does
\* the transcript after its header.
C22_NoOutputLost ==
  (pc = "rs_return" /\ faults = 0) =>
    /\ Len(buffer) = written
    /\ files[LabelOf(active)] = <<active>> \o buffer

\* C23: a verdict is never taken from the prompt.  The rendered prompt holds
\* nothing that _parse_verdict matches, so that parsing it alone gives
\* UNCLEAR, and the verdict recorded for an agent that exits 0 after printing
\* the prompt back and then its own report is the verdict of that report.
C23_PromptHasNoVerdict ==
  /\ prompt # <<>> => ParseVerdict(prompt) = "UNCLEAR"
  /\ ret_verdict # "none" => ret_verdict = own

====
